---- MODULE Spec2Model ----
(***************************************************************************)
(* Model of src/main/python/SpotifyStealthScraper.py: the command line     *)
(* entry point main(), the SpotifyStealthScraper object it builds, and the *)
(* login / play_track / stream workflow, one action per sequential step.   *)
(* The network, the cookie jar filled by the server and the random samples *)
(* are the environment: every outcome they can produce is chosen with \E.  *)
(***************************************************************************)
EXTENDS Integers, Sequences, FiniteSets, TLC

VARIABLES
  argv,          \* sys.argv: <<program, track_id, proxy_json, account_json>> prefix
  pc,            \* position of the single thread of control
  proxy,         \* SpotifyStealthScraper.proxy (python value)
  account,       \* SpotifyStealthScraper.account (python value)
  access_token,  \* SpotifyStealthScraper.access_token (None or str)
  session,       \* requests.Session: [proxies, cookies]
  login_ok,      \* value returned by the last login() call
  track_name,    \* local of play_track
  duration_seconds, \* local of play_track, in 1/DurationScale seconds
  results,       \* results returned by stream(), in order
  stdout,        \* lines printed on standard output, in order
  exit_status,   \* process exit status, NoExit while running
  trace,         \* observable events of the run, in order
  device_id,     \* SpotifyStealthScraper.device_id
  calls          \* number of stream() calls made on the scraper

vars == <<argv, pc, proxy, account, access_token, session, login_ok,
          track_name, duration_seconds, results, stdout, exit_status, trace,
          device_id, calls>>

----------------------------------------------------------------------------
(* Bounds of the model *)

\* sub-second resolution of the sampled playback duration
DurationScale == 2

\* stream() calls made on one scraper in the specification SpecRepeat
MaxStreams == 2

----------------------------------------------------------------------------
(* Python values: a tag, a string payload and a dict payload (set of       *)
(* <<key, value>> pairs with string values)                                *)

None == [t |-> "none", s |-> "", d |-> {}]
PyStr(x) == [t |-> "str", s |-> x, d |-> {}]
PyInt(x) == [t |-> "int", s |-> x, d |-> {}]
PyDict(x) == [t |-> "dict", s |-> "", d |-> x]

\* python truth value: None, "", 0 and {} are false
Truthy(v) ==
  CASE v.t = "none" -> FALSE
    [] v.t = "str"  -> v.s # ""
    [] v.t = "int"  -> v.s # "0"
    [] v.t = "dict" -> v.d # {}

HasKey(v, k) == \E p \in v.d : p[1] = k

\* v[k] of a dict that has the key
Item(v, k) == (CHOOSE p \in v.d : p[1] = k)[2]

\* dict.get(k, default) as a python value
dict_get(v, k, default) == IF HasKey(v, k) THEN PyStr(Item(v, k)) ELSE default

\* dict.get(k) is truthy
GetTruthy(v, k) == Truthy(dict_get(v, k, None))

\* only dicts have .get / [] ; anything else raises AttributeError / TypeError
IsDict(v) == v.t = "dict"

----------------------------------------------------------------------------
(* Command line texts and json.loads over them *)

ProxyHostPort == "{\"host\":\"p.com\",\"port\":8080}"
ProxyAuth == "{\"host\":\"p.com\",\"port\":8080,\"username\":\"u\",\"password\":\"pw\"}"
ProxyNoPort == "{\"host\":\"p.com\"}"
ProxyNoHost == "{\"port\":8080,\"username\":\"u\",\"password\":\"pw\"}"
AccountEmail == "{\"email\":\"user@email.com\",\"password\":\"pass\"}"
AccountUsername == "{\"username\":\"user\",\"password\":\"pass\"}"
EmptyObject == "{}"
Malformed == "{bad"
NullLiteral == "null"
SpacedNull == " null"
Number == "5"

\* json.loads: [ok |-> FALSE] stands for json.JSONDecodeError
json_loads(text) ==
  CASE text = ProxyHostPort ->
         [ok |-> TRUE, val |-> PyDict({<<"host", "p.com">>, <<"port", "8080">>})]
    [] text = ProxyAuth ->
         [ok |-> TRUE, val |-> PyDict({<<"host", "p.com">>, <<"port", "8080">>,
                                     <<"username", "u">>, <<"password", "pw">>})]
    [] text = ProxyNoPort ->
         [ok |-> TRUE, val |-> PyDict({<<"host", "p.com">>})]
    [] text = ProxyNoHost ->
         [ok |-> TRUE, val |-> PyDict({<<"port", "8080">>, <<"username", "u">>,
                                     <<"password", "pw">>})]
    [] text = AccountEmail ->
         [ok |-> TRUE, val |-> PyDict({<<"email", "user@email.com">>,
                                     <<"password", "pass">>})]
    [] text = AccountUsername ->
         [ok |-> TRUE, val |-> PyDict({<<"username", "user">>,
                                     <<"password", "pass">>})]
    [] text = EmptyObject -> [ok |-> TRUE, val |-> PyDict({})]
    [] text = NullLiteral -> [ok |-> TRUE, val |-> None]
    [] text = SpacedNull -> [ok |-> TRUE, val |-> None]
    [] text = Number -> [ok |-> TRUE, val |-> PyInt("5")]
    [] OTHER -> [ok |-> FALSE, val |-> None]

ProxyTexts == {NullLiteral, Malformed, EmptyObject, ProxyHostPort, ProxyAuth,
               ProxyNoPort, ProxyNoHost, Number}
AccountTexts == {NullLiteral, Malformed, EmptyObject, SpacedNull, AccountEmail,
                 AccountUsername, Number}
TrackIds == {"T1", "T2"}

Argvs ==
  {<<"SpotifyStealthScraper.py">>}
    \cup {<<"SpotifyStealthScraper.py", t>> : t \in TrackIds}
    \cup {<<"SpotifyStealthScraper.py", t, p>> : t \in TrackIds, p \in ProxyTexts}
    \cup {<<"SpotifyStealthScraper.py", t, p, a>> :
            t \in TrackIds, p \in ProxyTexts, a \in AccountTexts}

\* mutant: a text that is not JSON is kept as it is
ParseOptional_KeepText(args, i) ==
  IF Len(args) >= i /\ args[i] # NullLiteral
    THEN IF json_loads(args[i]).ok THEN json_loads(args[i]).val
                                   ELSE PyStr(args[i])
    ELSE None

\* the optional argument at position i (1-based, argv[0] is position 1) as
\* main() parses it: None when omitted, the literal null or not JSON
ParseOptional(args, i) ==
  IF Len(args) >= i /\ args[i] # NullLiteral
    THEN IF json_loads(args[i]).ok THEN json_loads(args[i]).val ELSE None
    ELSE None

----------------------------------------------------------------------------
(* The environment *)

Statuses == {200, 401, 404, 500}
TransportErrors == {"ConnectionError", "Timeout"}
NoExit == -1
Unset == -1

\* what one HTTP call can do: raise, or answer with a status
Outcomes ==
  [raised : {TRUE}, status : {0}, msg : TransportErrors]
    \cup [raised : {FALSE}, status : Statuses, msg : {""}]

----------------------------------------------------------------------------
(* Events and output lines *)

Delay(min_ms, max_ms) == [ev |-> "delay", min_ms |-> min_ms, max_ms |-> max_ms]
Request(method, url, info) ==
  [ev |-> "request", method |-> method, url |-> url, info |-> info]
Event(name) == [ev |-> name]
Raise(msg) == [ev |-> "raise", msg |-> msg]
Response(status) == [ev |-> "response", status |-> status]

Count(seq, P(_)) == Cardinality({i \in 1..Len(seq) : P(seq[i])})

IsLoginGet(e) == e.ev = "request" /\ e.url = "https://accounts.spotify.com/login"
IsLoginPost(e) == e.ev = "request" /\ e.url = "https://accounts.spotify.com/api/login"
IsMetadataGet(e) == e.ev = "request" /\ e.method = "GET" /\ ~IsLoginGet(e)
IsRequest(e) == e.ev = "request"
IsDelay(e) == e.ev = "delay"
IsSleep(e) == e.ev = "sleep"
IsProgress(e) == e.ev = "print_progress"
IsLoginCall(e) == e.ev = "login_call"
IsLoginReturn(e) == e.ev = "login_return"
IsPlayCall(e) == e.ev = "play_track_call"

----------------------------------------------------------------------------
(* Construction *)

\* _format_proxy_url: [ok |-> FALSE] stands for the KeyError / AttributeError
\* it raises
_format_proxy_url(p) ==
  IF ~IsDict(p) THEN [ok |-> FALSE, url |-> ""]
  ELSE IF GetTruthy(p, "username") /\ GetTruthy(p, "password")
    THEN IF HasKey(p, "host") /\ HasKey(p, "port")
           THEN [ok |-> TRUE,
                 url |-> "http://" \o Item(p, "username") \o ":"
                           \o Item(p, "password") \o "@" \o Item(p, "host")
                           \o ":" \o Item(p, "port")]
           ELSE [ok |-> FALSE, url |-> ""]
    ELSE IF HasKey(p, "host") /\ HasKey(p, "port")
           THEN [ok |-> TRUE,
                 url |-> "http://" \o Item(p, "host") \o ":" \o Item(p, "port")]
           ELSE [ok |-> FALSE, url |-> ""]

\* _setup_stealth: the proxies of the session, "" when none is configured
_setup_stealth(p) ==
  IF Truthy(p) THEN _format_proxy_url(p) ELSE [ok |-> TRUE, url |-> ""]

NewSession == [proxies |-> "", cookies |-> {}]

\* _generate_device_id: the 32 hex digits the seeded digest can give
_generate_device_id == {"0f3a9c5e7b1d2468ace013579bdf2468",
                        "9e107d9d372bb6826bd81d3542a419d6"}

----------------------------------------------------------------------------
Init ==
  /\ argv \in Argvs
  /\ pc = "main"
  /\ proxy = None
  /\ account = None
  /\ access_token = None
  /\ session = NewSession
  /\ login_ok = FALSE
  /\ track_name = ""
  /\ duration_seconds = Unset
  /\ results = <<>>
  /\ stdout = <<>>
  /\ exit_status = NoExit
  /\ trace = <<>>
  /\ device_id = ""
  /\ calls = 0

UsageLine ==
  [error |-> "Usage: SpotifyStealthScraper.py <track_id> [proxy_json] [account_json]"]

\* main, lines 247-251: the required argument is missing
MainUsage ==
  /\ pc = "main"
  /\ Len(argv) < 2
  /\ stdout' = Append(stdout, UsageLine)
  /\ exit_status' = 1
  /\ pc' = "exited"
  /\ UNCHANGED <<argv, device_id, calls, proxy, account, access_token, session, login_ok,
                 track_name, duration_seconds, results, trace>>

\* main, lines 253-272: parse the optional arguments and construct the scraper
MainConstruct ==
  /\ pc = "main"
  /\ Len(argv) >= 2
  /\ LET p == ParseOptional(argv, 3)
         a == ParseOptional(argv, 4)
         setup == _setup_stealth(p)
     IN /\ proxy' = p
        /\ account' = a
        /\ access_token' = None
        /\ IF setup.ok
             THEN /\ session' = [proxies |-> setup.url, cookies |-> {}]
                  /\ pc' = "stream"
                  /\ exit_status' = exit_status
                  /\ trace' = Append(trace, Event("constructed"))
             ELSE \* the exception leaves __init__ and main: traceback, status 1
                  /\ session' = session
                  /\ pc' = "crashed"
                  /\ exit_status' = 1
                  /\ trace' = Append(trace, Event("unhandled_exception"))
  /\ device_id' \in _generate_device_id
  /\ UNCHANGED <<argv, calls, login_ok, track_name, duration_seconds, results,
                 stdout>>


----------------------------------------------------------------------------
(* The cookie jar of the session: a set of <<name, value>> pairs *)

\* session.cookies.get(name, default)
CookieGet(cookies, name, default) ==
  IF \E c \in cookies : c[1] = name
    THEN (CHOOSE c \in cookies : c[1] = name)[2]
    ELSE default

\* the jar after a response that sets `name` to `value` ("" sets nothing)
SetCookie(cookies, name, value) ==
  IF value = "" THEN cookies
  ELSE {c \in cookies : c[1] # name} \cup {<<name, value>>}

CsrfValues == {"", "csrf1"}
TokenValues == {"", "tok"}

----------------------------------------------------------------------------
(* stream / login *)

LoginFailedResult == [success |-> FALSE, plays |-> 0, error |-> "Login failed"]

\* mutant: the token is compared with None instead of tested for truth
NeedsLogin_NoneOnly(acc, token) == Truthy(acc) /\ token = None

\* mutant: the account is not looked at
NeedsLogin_NoAccountCheck(acc, token) == ~Truthy(token)

\* mutant: the `not` of line 232 is dropped
NeedsLogin_TokenSet(acc, token) == Truthy(acc) /\ Truthy(token)

\* stream, line 232: the decision to log in
NeedsLogin(acc, token) == Truthy(acc) /\ ~Truthy(token)

\* stream, lines 231-237: entry, choosing login() or play_track()
StreamEnter ==
  /\ pc = "stream"
  /\ IF NeedsLogin(account, access_token)
       THEN /\ pc' = "login"
            /\ trace' = Append(trace, Event("login_call"))
       ELSE /\ pc' = "play"
            /\ trace' = Append(trace, Event("play_track_call"))
  /\ calls' = calls + 1
  /\ UNCHANGED <<argv, device_id, proxy, account, access_token, session, login_ok,
                 track_name, duration_seconds, results, stdout, exit_status>>

LoginErrorLine(msg) == [error |-> "Login failed: " \o msg]

\* mutant: the except clause of login() reports success
LoginExceptReturn_True == TRUE

\* login, lines 153-155: the value login() returns from its except clause
LoginExceptReturn == FALSE

\* mutant: only 401 counts as a refused login
LoginStatusOk_Not401(status) == status # 401

\* login, line 146: the status that makes login() return True
LoginStatusOk(status) == status = 200

\* mutant: the token is taken from the cookies before the status is checked
TokenAfterPost_Always(status, old, cookies) ==
  PyStr(CookieGet(cookies, "sp_dc", ""))

\* login, lines 146-151: access_token after the login POST was answered
TokenAfterPost(status, old, cookies) ==
  IF LoginStatusOk(status) THEN PyStr(CookieGet(cookies, "sp_dc", "")) ELSE old

\* login, lines 113-127: the account check, the first delay and the login
\* page GET
LoginGet ==
  /\ pc = "login"
  /\ IF ~Truthy(account)
       THEN /\ stdout' = Append(stdout, [error |-> "No account provided"])
            /\ login_ok' = FALSE
            /\ pc' = "login_done"
            /\ trace' = Append(trace, Event("login_return"))
            /\ session' = session
       ELSE \E o \in Outcomes, csrf \in CsrfValues :
              LET sent == trace \o <<Delay(200, 400),
                            Request("GET", "https://accounts.spotify.com/login", "")>>
              IN IF o.raised
                   THEN /\ stdout' = Append(stdout, LoginErrorLine(o.msg))
                        /\ login_ok' = LoginExceptReturn
                        /\ pc' = "login_done"
                        /\ trace' = sent \o <<Raise(o.msg), Event("login_return")>>
                        /\ session' = session
                   ELSE /\ stdout' = stdout
                        /\ login_ok' = login_ok
                        /\ pc' = "login_post"
                        /\ trace' = Append(sent, Response(o.status))
                        /\ session' = [session EXCEPT !.cookies =
                                         SetCookie(@, "sp_csrf_token", csrf)]
  /\ UNCHANGED <<argv, device_id, calls, proxy, account, access_token, track_name,
                 duration_seconds, results, exit_status>>

\* login, lines 129-155: the second delay, the form, the login POST and the
\* status check
LoginPost ==
  /\ pc = "login_post"
  /\ LET delayed == Append(trace, Delay(500, 1500))
         csrf_token == CookieGet(session.cookies, "sp_csrf_token", "")
     IN IF ~IsDict(account)
          THEN \* self.account.get raises AttributeError inside the try
               /\ stdout' = Append(stdout, LoginErrorLine("AttributeError"))
               /\ login_ok' = LoginExceptReturn
               /\ trace' = delayed \o <<Raise("AttributeError"), Event("login_return")>>
               /\ UNCHANGED <<session, access_token>>
          ELSE \E o \in Outcomes, dc \in TokenValues :
                 LET sent == Append(delayed,
                               Request("POST", "https://accounts.spotify.com/api/login",
                                       csrf_token))
                 IN IF o.raised
                      THEN /\ stdout' = Append(stdout, LoginErrorLine(o.msg))
                           /\ login_ok' = LoginExceptReturn
                           /\ trace' = sent \o <<Raise(o.msg), Event("login_return")>>
                           /\ UNCHANGED <<session, access_token>>
                      ELSE /\ session' = [session EXCEPT !.cookies =
                                            SetCookie(@, "sp_dc", dc)]
                           /\ trace' = sent \o <<Response(o.status), Event("login_return")>>
                           /\ stdout' = stdout
                           /\ access_token' =
                                TokenAfterPost(o.status, access_token, session'.cookies)
                           /\ login_ok' = LoginStatusOk(o.status)
  /\ pc' = "login_done"
  /\ UNCHANGED <<argv, device_id, calls, proxy, account, track_name, duration_seconds, results,
                 exit_status>>

\* mutant: a failed login is tried again
AfterLogin_Retry(ok) == IF ok THEN "play" ELSE "stream"

\* mutant: the result of login() is ignored
AfterLogin_Ignored(ok) == "play"

\* stream, lines 233-237: where control goes when login() has returned
AfterLogin(ok) == IF ok THEN "play" ELSE "report"

\* stream, lines 233-237: after login() has returned
StreamAfterLogin ==
  /\ pc = "login_done"
  /\ pc' = AfterLogin(login_ok)
  /\ IF pc' = "play"
       THEN /\ trace' = Append(trace, Event("play_track_call"))
            /\ results' = results
       ELSE /\ trace' = trace
            /\ results' = Append(results, LoginFailedResult)
  /\ UNCHANGED <<argv, device_id, calls, proxy, account, access_token, session, login_ok,
                 track_name, duration_seconds, stdout, exit_status>>


----------------------------------------------------------------------------
(* play_track *)

MinDuration == 45
MaxDuration == 120

\* random.uniform(45, 120), in 1/DurationScale seconds
DurationSamples == (MinDuration * DurationScale)..(MaxDuration * DurationScale)

\* mutant: round(duration_seconds), to the nearest second
IntSeconds_Rounded(d) == (2 * d + DurationScale) \div (2 * DurationScale)

\* int(duration_seconds): truncation towards zero of a positive value
IntSeconds(d) == d \div DurationScale

\* the bodies the metadata endpoint can answer with
Bodies == {"named", "unnamed", "list", "notjson"}

\* the Authorization header of the metadata request, line 174
Authorization(token) == IF Truthy(token) THEN "Bearer " \o token.s ELSE ""

\* mutant: no Authorization header without a token
MetadataHeaders_Suppressed(token) ==
  IF Truthy(token) THEN {<<"Authorization", Authorization(token)>>} ELSE {}

\* the headers passed with the metadata request, lines 173-175
MetadataHeaders(token) == {<<"Authorization", Authorization(token)>>}

\* the metadata request, lines 171-177
MetadataRequest(track_id, token) ==
  [ev |-> "request", method |-> "GET",
   url |-> "https://api.spotify.com/v1/tracks/" \o track_id,
   info |-> "", headers |-> MetadataHeaders(token)]

TrackNotFoundResult == [success |-> FALSE, plays |-> 0, error |-> "Track not found"]
\* mutant: the except clause of play_track() counts a play
ErrorResult_Played(msg) == [success |-> FALSE, plays |-> 1, error |-> msg]

ErrorResult(msg) == [success |-> FALSE, plays |-> 0, error |-> msg]
SuccessResult(track_id, d) ==
  [success |-> TRUE, plays |-> 1, track_id |-> track_id,
   duration |-> IntSeconds(d), timestamp |-> "utcnow"]
\* mutant: the progress line reports the duration rounded to the nearest second
ProgressLine_Rounded(name, track_id, d) ==
  [status |-> "playing", track |-> name, track_id |-> track_id,
   duration |-> (2 * d + DurationScale) \div (2 * DurationScale)]

ProgressLine(name, track_id, d) ==
  [status |-> "playing", track |-> name, track_id |-> track_id,
   duration |-> IntSeconds(d)]

\* mutant: only 404 counts as a missing track
TrackFound_Not404(status) == status # 404

\* play_track, line 179: the status that lets play_track go on
TrackFound(status) == status = 200

\* play_track, lines 167-180: the first delay, the metadata GET and the
\* status check
PlayGet ==
  /\ pc = "play"
  /\ \E o \in Outcomes :
       LET sent == trace \o <<Delay(200, 500),
                                MetadataRequest(argv[2], access_token)>>
       IN IF o.raised
            THEN /\ results' = Append(results, ErrorResult(o.msg))
                 /\ trace' = Append(sent, Raise(o.msg))
                 /\ pc' = "report"
            ELSE /\ trace' = Append(sent, Response(o.status))
                 /\ IF ~TrackFound(o.status)
                      THEN /\ results' = Append(results, TrackNotFoundResult)
                           /\ pc' = "report"
                      ELSE /\ results' = results
                           /\ pc' = "play_body"
  /\ UNCHANGED <<argv, device_id, calls, proxy, account, access_token, session, login_ok,
                 track_name, duration_seconds, stdout, exit_status>>

\* play_track, lines 182-204: the body, the second delay, the sampled
\* duration and the progress line
PlayBody ==
  /\ pc = "play_body"
  /\ \E body \in Bodies, d \in DurationSamples :
       IF body \in {"list", "notjson"}
         THEN \* .json() or .get raises inside the try
              /\ LET msg == IF body = "list" THEN "AttributeError"
                                              ELSE "JSONDecodeError"
                 IN /\ results' = Append(results, ErrorResult(msg))
                    /\ trace' = Append(trace, Raise(msg))
              /\ pc' = "report"
              /\ UNCHANGED <<track_name, duration_seconds, stdout>>
         ELSE /\ track_name' = IF body = "named" THEN "Song A" ELSE "Unknown"
              /\ duration_seconds' = d
              /\ stdout' = Append(stdout, ProgressLine(track_name', argv[2], d))
              /\ trace' = trace \o <<Delay(300, 700), Event("print_progress")>>
              /\ pc' = "play_sleep"
              /\ results' = results
  /\ UNCHANGED <<argv, device_id, calls, proxy, account, access_token, session, login_ok,
                 exit_status>>

\* mutant: the success result is returned without sleeping
PlaySleep_NoSleep ==
  /\ pc = "play_sleep"
  /\ trace' = trace
  /\ results' = Append(results, SuccessResult(argv[2], duration_seconds))
  /\ pc' = "report"
  /\ UNCHANGED <<argv, device_id, calls, proxy, account, access_token, session,
                 login_ok, track_name, duration_seconds, stdout, exit_status>>

\* play_track, lines 206-216: the blocking sleep and the success result
PlaySleep ==
  /\ pc = "play_sleep"
  /\ trace' = Append(trace, [ev |-> "sleep", units |-> duration_seconds])
  /\ results' = Append(results, SuccessResult(argv[2], duration_seconds))
  /\ pc' = "report"
  /\ UNCHANGED <<argv, device_id, calls, proxy, account, access_token, session, login_ok,
                 track_name, duration_seconds, stdout, exit_status>>

----------------------------------------------------------------------------
(* main: the report *)

\* mutant: the two exit codes are swapped
ExitCode_Swapped(result) == IF result.success THEN 1 ELSE 0

\* sys.exit(0 if result.get('success') else 1)
ExitCode(result) == IF result.success THEN 0 ELSE 1

\* main, lines 273-279: print the result of stream() and exit
MainReport ==
  /\ pc = "report"
  /\ stdout' = Append(stdout, results[Len(results)])
  /\ exit_status' = ExitCode(results[Len(results)])
  /\ pc' = "exited"
  /\ UNCHANGED <<argv, device_id, calls, proxy, account, access_token, session, login_ok,
                 track_name, duration_seconds, results, trace>>

Next ==
  \/ MainUsage
  \/ MainConstruct
  \/ StreamEnter
  \/ LoginGet
  \/ LoginPost
  \/ StreamAfterLogin
  \/ PlayGet
  \/ PlayBody
  \/ PlaySleep
  \/ MainReport

Spec == Init /\ [][Next]_vars

\* the single thread keeps running: every network call returns or raises
\* within its timeout (timeout=30) and every sleep ends
SpecLive == Spec /\ WF_vars(Next)

----------------------------------------------------------------------------
(* Several stream() calls on one scraper *)

RepeatArgvs ==
  {<<"SpotifyStealthScraper.py", "T1", p, a>> :
     p \in {NullLiteral, ProxyHostPort},
     a \in {NullLiteral, EmptyObject, AccountEmail, Number}}

InitRepeat ==
  /\ Init
  /\ argv \in RepeatArgvs

\* stream, lines 221-237: the caller takes the result and the output of the
\* call and calls stream() again on the same scraper; the locals of the
\* finished call are gone, the fields of the scraper and its session stay
StreamAgain ==
  /\ pc = "report"
  /\ calls < MaxStreams
  /\ pc' = "stream"
  /\ results' = <<>>
  /\ stdout' = <<>>
  /\ trace' = <<>>
  /\ login_ok' = FALSE
  /\ track_name' = ""
  /\ duration_seconds' = Unset
  /\ UNCHANGED <<argv, device_id, calls, proxy, account, access_token, session,
                 exit_status>>

NextRepeat ==
  \/ MainConstruct
  \/ StreamEnter
  \/ LoginGet
  \/ LoginPost
  \/ StreamAfterLogin
  \/ PlayGet
  \/ PlayBody
  \/ PlaySleep
  \/ StreamAgain
  \/ MainReport

SpecRepeat == InitRepeat /\ [][NextRepeat]_vars


----------------------------------------------------------------------------
(* Observations of a run *)

Requests(P(_)) == Count(trace, P)
Started == pc \notin {"main", "crashed"} /\ Len(argv) >= 2
Returned == pc \in {"report", "exited"} /\ Len(argv) >= 2
LoginFailed == Requests(IsLoginReturn) > 0 /\ ~login_ok
IsProgressLine(l) == "status" \in DOMAIN l
IsResultLine(l) == "success" \in DOMAIN l
IsErrorLine(l) == DOMAIN l = {"error"}
\* request i of the trace was answered by a transport exception
TransportFailure(i) ==
  /\ i < Len(trace)
  /\ IsRequest(trace[i])
  /\ trace[i + 1].ev = "raise"
\* the metadata request at i was answered with a status other than 200
MetadataRefused(i) ==
  /\ i < Len(trace)
  /\ IsMetadataGet(trace[i])
  /\ trace[i + 1].ev = "response"
  /\ trace[i + 1].status # 200

----------------------------------------------------------------------------
(* C1: when login() reports failure, stream() returns exactly              *)
(* {success: false, plays: 0, error: "Login failed"} and play_track() is   *)
(* never invoked: no metadata request, no progress line, no playback sleep *)
C1_LoginFailureStopsWorkflow ==
  LoginFailed =>
    /\ Requests(IsPlayCall) = 0
    /\ Requests(IsMetadataGet) = 0
    /\ Requests(IsProgress) = 0
    /\ Requests(IsSleep) = 0
    /\ \A i \in 1..Len(stdout) : ~IsProgressLine(stdout[i])
    /\ pc \in {"login_done", "report", "exited"}
    /\ Returned => results = <<LoginFailedResult>>

C1_Witness ==
  /\ pc = "exited"
  /\ LoginFailed
  /\ Requests(IsLoginPost) = 1
  /\ results = <<LoginFailedResult>>


----------------------------------------------------------------------------
\* the credentials argument parsed as a JSON object, whatever its fields
CredentialsObject ==
  /\ Len(argv) >= 4
  /\ json_loads(argv[4]).ok
  /\ IsDict(json_loads(argv[4]).val)

\* login() was called exactly once, as the first thing stream() did, and it
\* had returned before any metadata request was issued
LoginOnceBeforePlayback ==
  /\ Requests(IsLoginCall) = 1
  /\ trace[2].ev = "login_call"
  /\ \A i \in 1..Len(trace) :
       IsMetadataGet(trace[i]) => \E j \in 1..(i - 1) : IsLoginReturn(trace[j])
  /\ Returned => Requests(IsLoginReturn) = 1

(* C2 as stated: for every credentials object parsed from credentialsJSON  *)
(* (no token being resolved yet), stream() starts in NeedsLogin and calls  *)
(* login() exactly once, which completes before the metadata request       *)
C2_AnyCredentialsObjectLogsIn ==
  (CredentialsObject /\ Started /\ pc # "stream") => LoginOnceBeforePlayback

(* C2 amended: for every run whose parsed credentials value is non-empty   *)
(* (python-true, so not the empty object {}), with no token resolved yet,  *)
(* stream() starts in NeedsLogin and calls login() exactly once, and that  *)
(* call has returned before play_track() issues its metadata request       *)
C2_NonEmptyCredentialsLogIn ==
  (Truthy(account) /\ Started /\ pc # "stream") => LoginOnceBeforePlayback

C2_Witness ==
  /\ pc = "exited"
  /\ Truthy(account)
  /\ Requests(IsLoginCall) = 1
  /\ Requests(IsMetadataGet) = 1
  /\ results[1].success

----------------------------------------------------------------------------
\* the credentials argument is omitted or the literal null
CredentialsAbsent == Len(argv) < 4 \/ argv[4] = NullLiteral

(* C3: with credentials omitted or null, stream() goes directly to         *)
(* play_track(): login() is never called, neither login request is issued, *)
(* and the only network call of the run is the metadata GET                *)
C3_NoCredentialsNoLogin ==
  CredentialsAbsent =>
    /\ Requests(IsLoginCall) = 0
    /\ Requests(IsLoginGet) = 0
    /\ Requests(IsLoginPost) = 0
    /\ \A i \in 1..Len(trace) : IsRequest(trace[i]) => IsMetadataGet(trace[i])
    /\ (Started /\ pc # "stream") => trace[2].ev = "play_track_call"
    /\ Returned => Requests(IsRequest) = 1

C3_Witness ==
  /\ pc = "exited"
  /\ Len(argv) = 4
  /\ argv[4] = NullLiteral
  /\ Requests(IsMetadataGet) = 1
  /\ Requests(IsRequest) = 1

----------------------------------------------------------------------------
(* C4: when the metadata request is answered with a status other than 200, *)
(* play_track() returns exactly {success: false, plays: 0, error: "Track   *)
(* not found"} at once: no second delay, no progress line and no sleep     *)
(* follow the response                                                     *)
C4_TrackNotFoundImmediate ==
  \A i \in 1..Len(trace) :
    MetadataRefused(i) =>
      /\ Len(trace) = i + 1
      /\ Requests(IsProgress) = 0
      /\ Requests(IsSleep) = 0
      /\ \A k \in 1..Len(stdout) : ~IsProgressLine(stdout[k])
      /\ pc \in {"report", "exited"}
      /\ results = <<TrackNotFoundResult>>

C4_Witness ==
  /\ pc = "exited"
  /\ \E i \in 1..Len(trace) : MetadataRefused(i) /\ trace[i + 1].status = 500
  /\ results = <<TrackNotFoundResult>>

----------------------------------------------------------------------------
(* C5: every result stream() returns, on every path, satisfies: success    *)
(* implies plays = 1 and no error field; not success implies plays = 0     *)
C5_ResultInvariant ==
  \A i \in 1..Len(results) :
    /\ results[i].success => (results[i].plays = 1 /\ "error" \notin DOMAIN results[i])
    /\ ~results[i].success => results[i].plays = 0

\* a playback that failed with an exception has returned its result
C5_Witness ==
  /\ Len(results) = 1
  /\ ~results[1].success
  /\ results[1].error \notin {"Login failed", "Track not found"}


----------------------------------------------------------------------------
(* C6: the exit status is 0 exactly when the final result's success flag   *)
(* is true and 1 in every other terminating case, including the missing    *)
(* track id, where no scraper is constructed and no network call is made   *)
C6_ExitStatus ==
  /\ pc \notin {"exited", "crashed"} => exit_status = NoExit
  /\ pc \in {"exited", "crashed"} =>
       /\ exit_status \in {0, 1}
       /\ exit_status = 0 <=>
            (pc = "exited" /\ results # <<>> /\ results[Len(results)].success)
  /\ (pc = "exited" /\ Len(argv) < 2) =>
       /\ exit_status = 1
       /\ trace = <<>>
       /\ results = <<>>
       /\ stdout = <<UsageLine>>

C6_Witness ==
  /\ pc = "exited"
  /\ exit_status = 0
  /\ results[Len(results)].success
  /\ stdout[Len(stdout)] = results[Len(results)]

----------------------------------------------------------------------------
(* C7 as stated: in every run that exits, standard output holds exactly    *)
(* one terminal JSON object (the usage error or the result of stream()),   *)
(* as its last line, preceded by at most one progress line and by nothing  *)
(* else                                                                    *)
C7_OneTerminalObject ==
  pc = "exited" =>
    /\ Len(stdout) \in {1, 2}
    /\ stdout[Len(stdout)] = UsageLine \/ IsResultLine(stdout[Len(stdout)])
    /\ \A i \in 1..(Len(stdout) - 1) : IsProgressLine(stdout[i])
    /\ Len(results) <= 1

----------------------------------------------------------------------------
(* C8: a transport exception raised by a network call is caught where the  *)
(* call was issued and becomes a failure result (success false, plays 0,   *)
(* error "Login failed" for the login calls, the exception message for the *)
(* metadata call); it never leaves stream(), and the call is not retried   *)
C8_TransportErrorsCaught ==
  \A i \in 1..Len(trace) :
    TransportFailure(i) =>
      /\ pc \in {"login_done", "report", "exited"}
      /\ \A j \in 1..Len(trace) :
           (IsRequest(trace[j]) /\ trace[j].url = trace[i].url) => j = i
      /\ \A j \in (i + 1)..Len(trace) : ~IsRequest(trace[j])
      /\ Returned =>
           /\ Len(results) = 1
           /\ ~results[1].success
           /\ results[1].plays = 0
           /\ results[1].error =
                IF IsMetadataGet(trace[i]) THEN trace[i + 1].msg ELSE "Login failed"
      /\ pc = "exited" => (exit_status = 1 /\ stdout[Len(stdout)] = results[1])

\* the login POST raised and the run has reported it
C8_Witness ==
  /\ pc = "exited"
  /\ \E i \in 1..Len(trace) : TransportFailure(i) /\ IsLoginPost(trace[i])
  /\ results = <<LoginFailedResult>>

----------------------------------------------------------------------------
\* the proxy argument parsed as a JSON object that lacks host or port
ProxyLacksHostOrPort ==
  /\ Len(argv) >= 3
  /\ argv[3] # NullLiteral
  /\ json_loads(argv[3]).ok
  /\ IsDict(json_loads(argv[3]).val)
  /\ ~(HasKey(json_loads(argv[3]).val, "host") /\ HasKey(json_loads(argv[3]).val, "port"))

(* C9 as stated: a proxy object without host or port is not rejected when  *)
(* the channel is constructed: construction completes without failure; the *)
(* defect shows only on the first network call, as a structured failure    *)
C9_ProxyDefectDeferred ==
  ProxyLacksHostOrPort =>
    /\ pc # "crashed"
    /\ \A i \in 1..Len(trace) :
         (IsRequest(trace[i]) /\ i < Len(trace)) => trace[i + 1].ev = "raise"
    /\ pc = "exited" => ~results[1].success

----------------------------------------------------------------------------
\* argument i is present and is not JSON
IsMalformed(i) == Len(argv) >= i /\ ~json_loads(argv[i]).ok

(* C10: a proxy or credentials text that is not JSON never aborts the run  *)
(* and is treated as if it were absent: the scraper is built with the same *)
(* proxy / account as for the literal null, so a malformed proxy sets no   *)
(* route and a malformed account never triggers login()                    *)
C10_MalformedIsAbsent ==
  pc # "main" =>
    /\ IsMalformed(3) =>
         /\ proxy = ParseOptional([argv EXCEPT ![3] = NullLiteral], 3)
         /\ proxy = None
         /\ pc # "crashed"
         /\ session.proxies = ""
    /\ IsMalformed(4) =>
         /\ account = ParseOptional([argv EXCEPT ![4] = NullLiteral], 4)
         /\ account = None
         /\ Requests(IsLoginCall) = 0
         /\ Requests(IsLoginGet) = 0
         /\ Requests(IsLoginPost) = 0

C10_Witness ==
  /\ pc = "exited"
  /\ IsMalformed(3)
  /\ IsMalformed(4)
  /\ Requests(IsMetadataGet) = 1
  /\ results[1].success


----------------------------------------------------------------------------
(* C11: on full success the result has success true, plays 1, track_id     *)
(* equal to the requested id and an integer duration d, 45 <= d <= 120,    *)
(* that is the sampled duration truncated: d <= sample < d + 1             *)
C11_SuccessResultShape ==
  \A i \in 1..Len(results) :
    results[i].success =>
      /\ results[i].plays = 1
      /\ results[i].track_id = argv[2]
      /\ results[i].duration \in MinDuration..MaxDuration
      /\ results[i].duration * DurationScale <= duration_seconds
      /\ duration_seconds < (results[i].duration + 1) * DurationScale
      /\ \E k \in 1..Len(trace) :
           /\ IsMetadataGet(trace[k])
           /\ trace[k + 1] = Response(200)

\* a success whose sampled duration was not a whole number of seconds
C11_Witness ==
  /\ Len(results) = 1
  /\ results[1].success
  /\ duration_seconds % DurationScale = DurationScale - 1
  /\ results[1].duration = MinDuration


----------------------------------------------------------------------------
\* the login page GET was answered (with any status)
LoginGetAnswered ==
  \E i \in 1..(Len(trace) - 1) : IsLoginGet(trace[i]) /\ trace[i + 1].ev = "response"

\* the login POST was answered with status 200
LoginPostAccepted ==
  \E j \in 1..(Len(trace) - 1) : IsLoginPost(trace[j]) /\ trace[j + 1] = Response(200)

(* C12: login() returns success exactly when the login page GET and the    *)
(* login POST both complete without exception and the POST status is 200;  *)
(* the POST is issued only after the GET has returned and carries the      *)
(* anti-forgery cookie or the empty string; the GET status, a missing      *)
(* anti-forgery cookie and a missing session cookie (empty token stored)   *)
(* do not make the negotiation fail                                        *)
C12_LoginSucceedsIffPost200 ==
  /\ Requests(IsLoginReturn) > 0 =>
       /\ login_ok <=> (LoginGetAnswered /\ LoginPostAccepted)
       /\ login_ok =>
            access_token = PyStr(CookieGet(session.cookies, "sp_dc", ""))
  /\ \A j \in 1..Len(trace) :
       IsLoginPost(trace[j]) =>
         /\ \E i \in 1..(j - 2) :
              IsLoginGet(trace[i]) /\ trace[i + 1].ev = "response"
         /\ trace[j].info = CookieGet(session.cookies, "sp_csrf_token", "")

\* a successful login although the GET answered 500 and the server set
\* neither the anti-forgery cookie nor the session cookie
C12_Witness ==
  /\ Requests(IsLoginReturn) = 1
  /\ login_ok
  /\ \E i \in 1..(Len(trace) - 1) :
       IsLoginGet(trace[i]) /\ trace[i + 1] = Response(500)
  /\ \E j \in 1..Len(trace) : IsLoginPost(trace[j]) /\ trace[j].info = ""
  /\ session.cookies = {}
  /\ access_token = PyStr("")


----------------------------------------------------------------------------
\* position of the only event of the trace that satisfies the test, 0 if none
ProgressAt ==
  IF \E k \in 1..Len(trace) : IsProgress(trace[k])
    THEN CHOOSE k \in 1..Len(trace) : IsProgress(trace[k]) ELSE 0
SleepAt ==
  IF \E k \in 1..Len(trace) : IsSleep(trace[k])
    THEN CHOOSE k \in 1..Len(trace) : IsSleep(trace[k]) ELSE 0

(* C13: a successful playback emits exactly one progress line, after the   *)
(* metadata response with status 200 and strictly before the blocking      *)
(* sleep, and its result is produced only after the sleep; a run that ends *)
(* without reaching the sleep emits no progress line                       *)
C13_ProgressBeforeSleep ==
  /\ Requests(IsProgress) <= 1
  /\ Requests(IsSleep) <= 1
  /\ Requests(IsProgress) = Cardinality({i \in 1..Len(stdout) : IsProgressLine(stdout[i])})
  /\ ProgressAt > 0 =>
       \E k \in 1..(ProgressAt - 1) :
         IsMetadataGet(trace[k]) /\ trace[k + 1] = Response(200) /\ k + 1 < ProgressAt
  /\ SleepAt > 0 => (0 < ProgressAt /\ ProgressAt < SleepAt)
  /\ \A i \in 1..Len(results) :
       results[i].success =>
         /\ Requests(IsProgress) = 1
         /\ SleepAt = Len(trace)
         /\ trace[SleepAt].units = duration_seconds
  /\ (Returned /\ SleepAt = 0) => Requests(IsProgress) = 0

C13_Witness ==
  /\ pc = "exited"
  /\ Len(results) = 1
  /\ results[1].success
  /\ 0 < ProgressAt
  /\ ProgressAt < SleepAt
  /\ IsProgressLine(stdout[1])


----------------------------------------------------------------------------
\* the place of a request in the workflow, and the delay that precedes it
Rank(e) == IF IsLoginGet(e) THEN 1 ELSE IF IsLoginPost(e) THEN 2 ELSE 3
OwnDelay(e) ==
  IF IsLoginGet(e) THEN Delay(200, 400)
  ELSE IF IsLoginPost(e) THEN Delay(500, 1500)
  ELSE Delay(200, 500)

(* C14: one run is a single linear attempt: each of the three endpoints is *)
(* requested at most once, in the order login page GET, login POST,        *)
(* metadata GET, each request directly preceded by its own human delay,    *)
(* and neither NeedsLogin (login) nor Ready (play_track) is entered twice  *)
C14_SingleLinearAttempt ==
  /\ Requests(IsLoginGet) <= 1
  /\ Requests(IsLoginPost) <= 1
  /\ Requests(IsMetadataGet) <= 1
  /\ \A i, j \in 1..Len(trace) :
       (i < j /\ IsRequest(trace[i]) /\ IsRequest(trace[j])) =>
         Rank(trace[i]) < Rank(trace[j])
  /\ \A i \in 1..Len(trace) :
       IsRequest(trace[i]) => (i > 1 /\ trace[i - 1] = OwnDelay(trace[i]))
  /\ Requests(IsLoginCall) <= 1
  /\ Requests(IsPlayCall) <= 1
  /\ calls <= 1

\* a run that used all three endpoints
C14_Witness ==
  /\ pc = "exited"
  /\ Requests(IsLoginGet) = 1
  /\ Requests(IsLoginPost) = 1
  /\ Requests(IsMetadataGet) = 1
  /\ Requests(IsDelay) = 4


----------------------------------------------------------------------------
\* the metadata request was answered with status 200
MetadataAccepted ==
  \E k \in 1..(Len(trace) - 1) : IsMetadataGet(trace[k]) /\ trace[k + 1] = Response(200)

(* C15 as stated: the metadata body takes part in no decision: whenever    *)
(* the metadata request is answered with status 200, play_track() goes on  *)
(* to the progress line, the sleep and a success result, whatever the body *)
(* (name present, name absent, or not a JSON object)                       *)
C15_BodyDecidesNothing ==
  (MetadataAccepted /\ Returned) =>
    /\ Len(results) = 1
    /\ results[1].success
    /\ Requests(IsProgress) = 1
    /\ Requests(IsSleep) = 1


----------------------------------------------------------------------------
\* the token as text: the empty string when it was never set
TokenText == access_token.s

\* the values of the Authorization headers of request e
AuthorizationValues(e) == {h[2] : h \in {g \in e.headers : g[1] = "Authorization"}}

(* C16 as stated: the metadata GET always carries an Authorization header, *)
(* whose value is "Bearer " followed by the token, also when the token is  *)
(* empty or was never set (a bearer value built from the empty token)      *)
C16_BearerBuiltFromToken ==
  \A i \in 1..Len(trace) :
    IsMetadataGet(trace[i]) =>
      AuthorizationValues(trace[i]) = {"Bearer " \o TokenText}

(* C16 amended: the metadata GET always carries exactly one Authorization  *)
(* header; its value is "Bearer " followed by the token when the token is  *)
(* a non-empty string, and the empty string, without the Bearer prefix,    *)
(* when the token is empty or was never set; the header is not suppressed  *)
C16_AuthorizationHeader ==
  \A i \in 1..Len(trace) :
    IsMetadataGet(trace[i]) =>
      /\ Cardinality(trace[i].headers) = 1
      /\ TokenText # "" => AuthorizationValues(trace[i]) = {"Bearer " \o TokenText}
      /\ TokenText = "" => AuthorizationValues(trace[i]) = {""}

\* a metadata request sent after a login that stored the empty token
C16_Witness ==
  /\ Requests(IsMetadataGet) = 1
  /\ login_ok
  /\ access_token = PyStr("")
  /\ \E i \in 1..Len(trace) :
       IsMetadataGet(trace[i]) /\ AuthorizationValues(trace[i]) = {""}


----------------------------------------------------------------------------
\* control is inside stream() or play_track(), outside login()
InStreamOrPlay == pc \in {"stream", "login_done", "play", "play_body", "play_sleep"}

(* C17: access_token is written only by a login() that returns success; a  *)
(* login() that fails leaves it exactly as it was; stream() and            *)
(* play_track() never modify access_token, and nothing after construction  *)
(* modifies account, proxy or device_id                                    *)
C17_TokenWrittenOnlyByLogin ==
  [][/\ access_token' # access_token =>
          (pc = "login_post" /\ pc' = "login_done" /\ login_ok')
     /\ (pc \in {"login", "login_post"} /\ pc' = "login_done" /\ ~login_ok') =>
          access_token' = access_token
     /\ InStreamOrPlay => access_token' = access_token
     /\ pc # "main" =>
          (account' = account /\ proxy' = proxy /\ device_id' = device_id)]_vars

\* a later login() has failed although the server set the session cookie,
\* and the empty token stored by the earlier login() is still there
C17_Witness ==
  /\ calls = 2
  /\ pc = "login_done"
  /\ ~login_ok
  /\ CookieGet(session.cookies, "sp_dc", "") = "tok"
  /\ access_token = PyStr("")

----------------------------------------------------------------------------
(* C18: over the stream() calls made on one scraper that holds credentials *)
(* (a python-true account), a call invokes login() exactly when            *)
(* access_token is unset or empty at that moment; login() is invoked from  *)
(* nowhere else and a non-empty token stays, so after a login that stored  *)
(* a non-empty token no later call logs in, and after a login that stored  *)
(* the empty token the next call logs in again                             *)
C18_LoginIffTokenEmpty ==
  [][/\ (pc = "stream" /\ Truthy(account)) =>
          (pc' = "login" <=> (access_token = None \/ access_token = PyStr("")))
     /\ (pc # "login" /\ pc' = "login") => pc = "stream"
     /\ Truthy(access_token) => access_token' = access_token
     /\ (access_token = PyStr("") /\ pc # "login_post") =>
          access_token' = access_token]_vars

\* the second call logs in again after the first login stored the empty token
C18_Witness ==
  /\ calls = 2
  /\ pc = "login"
  /\ Truthy(account)
  /\ access_token = PyStr("")


----------------------------------------------------------------------------
(* C19: in every successful playback the duration of the progress line     *)
(* equals the duration of the final result, both being the truncation of   *)
(* the one sampled duration, and the track_id of both is the requested id  *)
C19_ProgressMatchesResult ==
  \A i \in 1..Len(results) :
    results[i].success =>
      \E k \in 1..Len(stdout) :
        /\ IsProgressLine(stdout[k])
        /\ stdout[k].duration = results[i].duration
        /\ stdout[k].duration = IntSeconds(duration_seconds)
        /\ stdout[k].track_id = argv[2]
        /\ results[i].track_id = argv[2]
        /\ \A m \in 1..Len(stdout) : IsProgressLine(stdout[m]) => m = k

\* a reported success whose sample was not a whole number of seconds
C19_Witness ==
  /\ pc = "exited"
  /\ Len(results) = 1
  /\ results[1].success
  /\ duration_seconds % DurationScale = DurationScale - 1
  /\ stdout[1].duration = results[1].duration
  /\ argv[2] = "T2"


----------------------------------------------------------------------------
\* the process has ended
Terminated == exit_status # NoExit

\* the last line of standard output is the result of stream()
ResultPrinted == Len(stdout) >= 1 /\ IsResultLine(stdout[Len(stdout)])

\* every run ends, with or without a result
EventuallyTerminated == <>Terminated

(* C20 as stated: every run started with a track id eventually terminates, *)
(* having passed through at most NeedsLogin and Ready, with a final result *)
(* printed and an exit status of 0 or 1                                    *)
C20_TerminatesWithResult ==
  (Len(argv) >= 2) ~>
    (/\ pc = "exited"
     /\ ResultPrinted
     /\ exit_status \in {0, 1}
     /\ Requests(IsLoginCall) <= 1
     /\ Requests(IsPlayCall) <= 1)

====
